---- MODULE Spec2Model ----
(***************************************************************************)
(* The two graders of cocoabench-example-tasks: eight-puzzle-game/test.py  *)
(* (an answer between <answer> tags) and linear-regime-estimation/test.py  *)
(* (a JSON object with regime_count and breakpoints).                      *)
(*                                                                         *)
(* Python values are tagged records [t, v]:                                *)
(*   "null" None, "int", "float", "bool", "list" (v a sequence),           *)
(*   "dict" (v a function from keys to values),                            *)
(*   "atom" a str that is only ever compared as a whole (role, name),      *)
(*   "str"  a str whose text is inspected: v is a sequence of characters   *)
(*          (tag grader, dates) or of regex-level tokens (JSON grader),    *)
(*   "jsonstr" a str handed to json.loads, v what it decodes to,           *)
(*   "raise" an exception in flight, v its class.                          *)
(***************************************************************************)
EXTENDS Integers, Sequences, FiniteSets, TLC

VARIABLES grader, status, task_result, conversation, pc, outcome,
          max_retries, delay, attempt, retry_pc, retry_log, retry_outcome

graderVars == <<grader, status, task_result, conversation, pc, outcome>>
retryVars == <<max_retries, delay, attempt, retry_pc, retry_log, retry_outcome>>
vars == <<graderVars, retryVars>>

\* ---------------------------------------------------------------- bounds
MaxConv == 2
MaxBps == 3
MaxRetries == 3
MaxDelay == 2

\* ---------------------------------------------------------------- values
None == [t |-> "null", v |-> 0]
IntV(n) == [t |-> "int", v |-> n]
Float(n) == [t |-> "float", v |-> n]
Bool(b) == [t |-> "bool", v |-> b]
Atom(s) == [t |-> "atom", v |-> s]
Str(s) == [t |-> "str", v |-> s]
List(s) == [t |-> "list", v |-> s]
Dict(f) == [t |-> "dict", v |-> f]
JsonStr(x) == [t |-> "jsonstr", v |-> x]
Raise(e) == [t |-> "raise", v |-> e]
IsRaise(x) == x.t = "raise"

EmptyDict == Dict(<<>>)
EmptyList == List(<<>>)
EmptyStr == Str(<<>>)

Min(S) == CHOOSE x \in S : \A y \in S : x <= y
Max(S) == CHOOSE x \in S : \A y \in S : x >= y

\* Python truth value of x (bool(x)).
Truthy(x) ==
    CASE x.t = "null" -> FALSE
      [] x.t = "bool" -> x.v
      [] x.t \in {"int", "float"} -> x.v # 0
      [] x.t \in {"str", "list"} -> Len(x.v) > 0
      [] x.t = "atom" -> x.v # ""
      [] x.t = "dict" -> DOMAIN x.v # {}
      [] OTHER -> TRUE

\* d.get(k, default) and d.get(k) on a dict value d.
GetOr(d, k, default) == IF k \in DOMAIN d.v THEN d.v[k] ELSE default
Get(d, k) == GetOr(d, k, None)

\* json.loads(s): the decoded value, or JSONDecodeError for malformed text.
json_loads(s) == s.v

\* ------------------------------------------------------------ characters
LOWER == <<"a","b","c","d","e","f","g","h","i","j","k","l","m",
           "n","o","p","q","r","s","t","u","v","w","x","y","z">>
UPPER == <<"A","B","C","D","E","F","G","H","I","J","K","L","M",
           "N","O","P","Q","R","S","T","U","V","W","X","Y","Z">>
DIGITS == <<"0","1","2","3","4","5","6","7","8","9">>

IsSpace(c) == c \in {" ", "\t", "\n", "\r"}
IsDigit(c) == \E i \in 1..10 : DIGITS[i] = c
DigitVal(c) == (CHOOSE i \in 1..10 : DIGITS[i] = c) - 1

UpperChar(c) == IF \E i \in 1..26 : LOWER[i] = c
                THEN UPPER[CHOOSE i \in 1..26 : LOWER[i] = c] ELSE c
LowerChar(c) == IF \E i \in 1..26 : UPPER[i] = c
                THEN LOWER[CHOOSE i \in 1..26 : UPPER[i] = c] ELSE c

\* str.upper() and str.strip() on a sequence of characters.
StrUpper(s) == [i \in 1..Len(s) |-> UpperChar(s[i])]
Strip(s) ==
    LET keep == {i \in 1..Len(s) : ~IsSpace(s[i])}
    IN IF keep = {} THEN <<>> ELSE SubSeq(s, Min(keep), Max(keep))

\* The literal pat matches s at position i, letter case ignored (re.IGNORECASE).
MatchAtNoCase(s, i, pat) ==
    /\ i >= 1
    /\ i + Len(pat) - 1 <= Len(s)
    /\ \A k \in 1..Len(pat) : LowerChar(s[i + k - 1]) = LowerChar(pat[k])

\* ---------------------------------------------------- eight-puzzle-game
EXPECTED_ANSWER == <<"E","F","P","T","G","K">>

OPEN_TAG == <<"<","a","n","s","w","e","r",">">>
CLOSE_TAG == <<"<","/","a","n","s","w","e","r",">">>

\* re.compile(r'<answer>(.*?)</answer>', IGNORECASE | DOTALL).search(text):
\* the leftmost opening tag that a closing tag follows, and the nearest
\* closing tag after it; group(1).strip() is returned, None without a match.
\* A text that is no str makes the regex raise TypeError.
_extract_answer_from_text(text) ==
    IF text.t # "str" THEN Raise("TypeError")
    ELSE LET s == text.v
             opens == {i \in 1..Len(s) : MatchAtNoCase(s, i, OPEN_TAG)}
             closesAfter(i) == {j \in (i + Len(OPEN_TAG))..Len(s) :
                                   MatchAtNoCase(s, j, CLOSE_TAG)}
             hits == {i \in opens : closesAfter(i) # {}}
         IN IF hits = {} THEN None
            ELSE LET i == Min(hits)
                     j == Min(closesAfter(i))
                 IN Str(Strip(SubSeq(s, i + Len(OPEN_TAG), j - 1)))

\* A mutant of _normalize_answer: the letter case is kept.
_normalize_keeping_case(answer) == Strip(answer)

\* answer.strip().upper()
_normalize_answer(answer) == StrUpper(Strip(answer))

\* ------------------------------------------- linear-regime-estimation
EXPECTED_REGIME_COUNT == 3
EXPECTED_BREAKPOINTS ==
    <<Str(<<"2","0","2","4","-","0","7","-","2","7">>),
      Str(<<"2","0","2","5","-","0","2","-","1","6">>)>>
TOLERANCE_DAYS == 7

\* The value of a sequence of digits.
RECURSIVE DigitsVal(_)
DigitsVal(s) ==
    IF Len(s) = 0 THEN 0
    ELSE 10 * DigitsVal(SubSeq(s, 1, Len(s) - 1)) + DigitVal(s[Len(s)])

AllDigits(s) == \A i \in 1..Len(s) : IsDigit(s[i])

\* datetime: days of the proleptic Gregorian calendar (date.toordinal()).
IsLeap(y) == y % 4 = 0 /\ (y % 100 # 0 \/ y % 400 = 0)
DaysInMonth(y, m) ==
    IF m = 2 THEN (IF IsLeap(y) THEN 29 ELSE 28)
    ELSE IF m \in {4, 6, 9, 11} THEN 30 ELSE 31
RECURSIVE DaysBeforeMonth(_, _)
DaysBeforeMonth(y, m) ==
    IF m = 1 THEN 0 ELSE DaysBeforeMonth(y, m - 1) + DaysInMonth(y, m - 1)
DaysBeforeYear(y) ==
    LET p == y - 1 IN p * 365 + (p \div 4) - (p \div 100) + (p \div 400)
ToOrdinal(y, m, d) == DaysBeforeYear(y) + DaysBeforeMonth(y, m) + d

\* datetime.strptime(s, "%Y-%m-%d"): %Y is four digits, %m is
\* 1[0-2]|0[1-9]|[1-9], %d is 3[01]|[12]\d|0[1-9]|[1-9]| [1-9], the whole of s
\* must be matched, and the day must exist in the month.  The date is
\* returned as its ordinal; ValueError otherwise.
strptime(s) ==
    IF Len(s) < 8 \/ ~AllDigits(SubSeq(s, 1, 4)) \/ s[5] # "-"
    THEN Raise("ValueError")
    ELSE LET rest == SubSeq(s, 6, Len(s))
             dash == {i \in 1..Len(rest) : rest[i] = "-"}
         IN IF dash = {} THEN Raise("ValueError")
            ELSE LET p == Min(dash)
                     ms == SubSeq(rest, 1, p - 1)
                     ds0 == SubSeq(rest, p + 1, Len(rest))
                     ds == IF Len(ds0) = 2 /\ ds0[1] = " " THEN SubSeq(ds0, 2, 2) ELSE ds0
                     tokens == /\ Len(ms) \in {1, 2} /\ AllDigits(ms)
                               /\ Len(ds) \in {1, 2} /\ AllDigits(ds)
                 IN IF ~tokens THEN Raise("ValueError")
                    ELSE LET y == DigitsVal(SubSeq(s, 1, 4))
                             m == DigitsVal(ms)
                             d == DigitsVal(ds)
                         IN IF /\ y >= 1
                               /\ m \in 1..12
                               /\ d >= 1
                               /\ d <= DaysInMonth(y, m)
                               /\ (Len(ds0) = 2 /\ ds0[1] = " " => d <= 9)
                            THEN IntV(ToOrdinal(y, m, d))
                            ELSE Raise("ValueError")

\* _parse_date(date_str): date_str.strip() raises AttributeError on a value
\* that is no str; strptime's ValueError is raised again as ValueError.
_parse_date(date_str) ==
    IF date_str.t # "str" THEN Raise("AttributeError")
    ELSE strptime(Strip(date_str.v))

\* A mutant of _dates_within_tolerance: the bound is exclusive.
_dates_strictly_within(date1, date2, tolerance_days) ==
    LET diff == date1 - date2
        delta == IF diff < 0 THEN -diff ELSE diff
    IN delta < tolerance_days

\* abs((date1 - date2).days) <= tolerance_days
_dates_within_tolerance(date1, date2, tolerance_days) ==
    LET diff == date1 - date2
        delta == IF diff < 0 THEN -diff ELSE diff
    IN delta <= tolerance_days

\* list.sort() on dates: ascending.
RECURSIVE SortDates(_)
SortDates(s) ==
    IF Len(s) <= 1 THEN s
    ELSE LET m == Min({s[i] : i \in 1..Len(s)})
             k == Min({i \in 1..Len(s) : s[i] = m})
         IN <<m>> \o SortDates(SubSeq(s, 1, k - 1) \o SubSeq(s, k + 1, Len(s)))

\* A text of the JSON grader is a sequence of what its two regular
\* expressions can see: prose without braces, and candidates, each the text
\* of a brace-balanced {...} (at most one level of nesting) that is inside a
\* ``` fence or not; v is what json.loads makes of the candidate.
Prose == [k |-> "prose", fenced |-> FALSE, v |-> None]
Cand(fenced, v) == [k |-> "cand", fenced |-> fenced, v |-> v]
Malformed == Raise("JSONDecodeError")

\* _extract_json_from_text(text): the first fenced block if it parses;
\* otherwise the candidates of the whole text from left to right, the first
\* that parses; None when none does.  A text that is no str raises TypeError.
_extract_json_from_text(text) ==
    IF text.t # "str" THEN Raise("TypeError")
    ELSE LET s == text.v
             fencedAt == {i \in 1..Len(s) : s[i].k = "cand" /\ s[i].fenced}
             parses == {i \in 1..Len(s) : s[i].k = "cand" /\ ~IsRaise(json_loads(s[i]))}
         IN IF fencedAt # {} /\ Min(fencedAt) \in parses
            THEN json_loads(s[Min(fencedAt)])
            ELSE IF parses # {} THEN json_loads(s[Min(parses)])
            ELSE None

\* ------------------------------------------------- the conversation scan
\* The text extraction of the grader whose scan this is: the two scans differ
\* in nothing else.
ExtractPayload(kind, text) ==
    IF kind = "answer" THEN _extract_answer_from_text(text)
    ELSE _extract_json_from_text(text)

\* What visiting one item of a loop does: go on, return a value, or raise.
Skip == [k |-> "skip", v |-> None]
Ret(x) == [k |-> "return", v |-> x]
Exc(e) == [k |-> "raise", v |-> Raise(e)]

\* A loop over events: the first one that is not "go on" ends the loop.
FirstEvent(events) ==
    LET hit == {i \in 1..Len(events) : events[i].k # "skip"}
    IN IF hit = {} THEN Skip ELSE events[Min(hit)]

\* A mutant of ToolCallVisit: arguments that json.loads rejects end the scan
\* with the JSONDecodeError.
ToolCallVisitFatal(tc, kind) ==
    LET found(answer) ==
            IF IsRaise(answer) THEN Skip
            ELSE IF Truthy(answer) THEN Ret(answer)
            ELSE Skip
        decoded(args) ==
            IF IsRaise(args) THEN Exc("JSONDecodeError")
            ELSE IF args.t # "dict" THEN Skip
            ELSE IF "result" \notin DOMAIN args.v THEN Skip
            ELSE found(ExtractPayload(kind, args.v["result"]))
        arguments(args_str) ==
            decoded(IF args_str.t = "jsonstr" THEN json_loads(args_str) ELSE args_str)
        function(func) ==
            IF func.t # "dict" THEN Exc("AttributeError")
            ELSE IF Get(func, "name") # Atom("task_complete") THEN Skip
            ELSE arguments(GetOr(func, "arguments", JsonStr(EmptyDict)))
    IN IF tc.t # "dict" THEN Skip
       ELSE function(GetOr(tc, "function", EmptyDict))

\* The body of the inner loop over tool calls.  Everything from reading
\* "arguments" on is inside try/except Exception: pass.
ToolCallVisit(tc, kind) ==
    LET found(answer) ==
            IF IsRaise(answer) THEN Skip
            ELSE IF Truthy(answer) THEN Ret(answer)
            ELSE Skip
        decoded(args) ==
            IF IsRaise(args) THEN Skip
            ELSE IF args.t # "dict" THEN Skip
            ELSE IF "result" \notin DOMAIN args.v THEN Skip
            ELSE found(ExtractPayload(kind, args.v["result"]))
        arguments(args_str) ==
            decoded(IF args_str.t = "jsonstr" THEN json_loads(args_str) ELSE args_str)
        function(func) ==
            IF func.t # "dict" THEN Exc("AttributeError")
            ELSE IF Get(func, "name") # Atom("task_complete") THEN Skip
            ELSE arguments(GetOr(func, "arguments", JsonStr(EmptyDict)))
    IN IF tc.t # "dict" THEN Skip
       ELSE function(GetOr(tc, "function", EmptyDict))

\* The body of the first loop over messages: the tool calls of an assistant
\* message, in the order reported.  Iterating a number raises TypeError.
ToolCallsVisit(message, kind) ==
    IF message.t # "dict" THEN Skip
    ELSE IF ~(Get(message, "role") = Atom("assistant")
              /\ Truthy(Get(message, "tool_calls"))) THEN Skip
    ELSE LET tcs == GetOr(message, "tool_calls", EmptyList)
         IN IF tcs.t = "list"
            THEN FirstEvent([i \in 1..Len(tcs.v) |-> ToolCallVisit(tcs.v[i], kind)])
            ELSE Exc("TypeError")

\* The body of the second loop over messages: the content of an assistant
\* message.  The extraction is not inside a try.
ContentVisit(message, kind) ==
    IF message.t # "dict" THEN Skip
    ELSE IF Get(message, "role") # Atom("assistant") THEN Skip
    ELSE LET c == Get(message, "content")
             content == IF Truthy(c) THEN c ELSE EmptyStr
             found(answer) ==
                 IF IsRaise(answer) THEN [k |-> "raise", v |-> answer]
                 ELSE IF Truthy(answer) THEN Ret(answer)
                 ELSE Skip
         IN found(ExtractPayload(kind, content))

\* A mutant of ScanConversation: one loop that tries each message's tool calls
\* and then its content before moving to an older message.
ScanInterleaved(conv, kind) ==
    LET n == Len(conv)
        orContent(e, m) == IF e.k # "skip" THEN e ELSE ContentVisit(m, kind)
        visit(m) == orContent(ToolCallsVisit(m, kind), m)
        result(ev) == IF ev.k = "skip" THEN None ELSE ev.v
    IN result(FirstEvent([i \in 1..n |-> visit(conv[n + 1 - i])]))

\* A mutant of ScanConversation: no role test in the second loop.
ScanAnyRole(conv, kind) ==
    LET n == Len(conv)
        asAssistant(m) == IF m.t = "dict"
                          THEN Dict([k \in DOMAIN m.v \cup {"role"} |->
                                     IF k = "role" THEN Atom("assistant") ELSE m.v[k]])
                          ELSE m
        pass1 == FirstEvent([i \in 1..n |-> ToolCallsVisit(conv[n + 1 - i], kind)])
        pass2 == FirstEvent([i \in 1..n |-> ContentVisit(asAssistant(conv[n + 1 - i]), kind)])
        orPass2(ev) == IF ev.k # "skip" THEN ev ELSE pass2
        result(ev) == IF ev.k = "skip" THEN None ELSE ev.v
    IN result(orPass2(pass1))

\* Both graders' scan: a first loop over reversed(conversation) that looks at
\* tool calls only, then a second loop over reversed(conversation) that
\* looks at contents only; None when both loops run out.
ScanConversation(conv, kind) ==
    LET n == Len(conv)
        pass1 == FirstEvent([i \in 1..n |-> ToolCallsVisit(conv[n + 1 - i], kind)])
        pass2 == FirstEvent([i \in 1..n |-> ContentVisit(conv[n + 1 - i], kind)])
        orPass2(ev) == IF ev.k # "skip" THEN ev ELSE pass2
        result(ev) == IF ev.k = "skip" THEN None ELSE ev.v
    IN result(orPass2(pass1))

\* A mutant of _extract_answer_from_conversation: one interleaved loop.
_extract_answer_interleaved(conv) ==
    ScanInterleaved(conv, "answer")

_extract_answer_from_conversation(conv) ==
    ScanConversation(conv, "answer")

\* A line of feedback: the words of its format string, with {} where a
\* value is interpolated, and the values.
Line(text, args) == [text |-> text, args |-> args]

PUZZLE_NOT_FOUND ==
    Line(<<"No", "valid", "answer", "found", "in", "assistant", "responses.",
           "Expected", "format:", "<answer>CODE</answer>">>, <<>>)
STATUS_NOT_SUCCESS == Line(<<"X", "Task", "status", "is", "not", "success.">>, <<>>)

Returned(passed, feedback, details) ==
    [kind |-> "returned", passed |-> passed, feedback |-> feedback, details |-> details]
Raised(e) == [kind |-> "raised", exc |-> e]

\* passed = task_completed and answer_correct
PuzzlePassed(task_completed, answer_correct) == task_completed /\ answer_correct

\* test(result) of eight-puzzle-game.
test_eight_puzzle(st, tr, conv) ==
    LET conv_list == IF Truthy(conv) THEN conv ELSE EmptyList
        task_completed == st = Atom("success")
        \* from "if not output_answer" on
        validate(output_answer) ==
            IF IsRaise(output_answer) THEN Raised(output_answer.v)
            ELSE IF ~Truthy(output_answer)
            THEN Returned(FALSE, <<PUZZLE_NOT_FOUND>>,
                          [task_completed |-> task_completed,
                           conversation_length |-> Len(conv_list.v)])
            ELSE LET normalized_output == _normalize_answer(output_answer.v)
                     normalized_expected == _normalize_answer(EXPECTED_ANSWER)
                     answer_correct == normalized_output = normalized_expected
                     passed == PuzzlePassed(task_completed, answer_correct)
                     parts ==
                         <<Line(<<"Found", "answer:", "{}">>, <<output_answer.v>>),
                           Line(<<IF answer_correct THEN "V" ELSE "X", "Code:", "got",
                                  "'{}',", "expected", "'{}'.">>,
                                <<output_answer.v, EXPECTED_ANSWER>>)>>
                         \o (IF task_completed THEN <<>> ELSE <<STATUS_NOT_SUCCESS>>)
                 IN Returned(passed, parts,
                             [task_completed |-> task_completed,
                              output_answer |-> output_answer.v,
                              answer_correct |-> answer_correct,
                              expected_answer |-> EXPECTED_ANSWER])
        \* "if not output_answer:" after the direct result: the conversation
        fallback(direct) ==
            IF IsRaise(direct) THEN Raised(direct.v)
            ELSE validate(IF ~Truthy(direct)
                          THEN _extract_answer_from_conversation(conv_list.v)
                          ELSE direct)
    IN fallback(IF Truthy(tr) THEN _extract_answer_from_text(tr) ELSE None)

\* A mutant of _extract_json_from_conversation: one interleaved loop.
_extract_json_interleaved(conv) ==
    ScanInterleaved(conv, "json")

\* A mutant of _extract_json_from_conversation: contents of any role.
_extract_json_any_role(conv) ==
    ScanAnyRole(conv, "json")

_extract_json_from_conversation(conv) ==
    ScanConversation(conv, "json")

REGIME_NOT_FOUND ==
    Line(<<"No", "valid", "JSON", "object", "found", "in", "assistant", "responses.">>, <<>>)
MISSING_REGIME_COUNT ==
    Line(<<"JSON", "output", "missing", "'regime_count'", "field.">>, <<>>)
MISSING_BREAKPOINTS ==
    Line(<<"JSON", "output", "missing", "'breakpoints'", "field.">>, <<>>)
TypeMismatchRegimeCount(type) ==
    Line(<<"regime_count", "must", "be", "an", "integer,", "got", "{}.">>, <<type>>)
TypeMismatchBreakpoints(type) ==
    Line(<<"breakpoints", "must", "be", "a", "list,", "got", "{}.">>, <<type>>)
CountMismatchLine(n, m) ==
    Line(<<"Expected", "{}", "breakpoints,", "got", "{}.">>, <<n, m>>)
WITHIN_TOLERANCE ==
    Line(<<"V", "All", "breakpoints", "are", "within", "+-7", "day", "tolerance.">>, <<>>)
MismatchLine(exp_date, out_date, delta) ==
    Line(<<"Expected", "{},", "got", "{}", "(delta:", "{}", "days)">>,
         <<exp_date, out_date, delta>>)
ParseErrorLine(date_str) ==
    Line(<<"Error", "parsing", "breakpoint", "dates:", "Invalid", "date", "format:",
           "{}.", "Expected", "YYYY-MM-DD">>, <<date_str>>)

\* type(x).__name__
TypeName(x) ==
    CASE x.t = "null" -> "NoneType"
      [] x.t \in {"str", "atom", "jsonstr"} -> "str"
      [] OTHER -> x.t

\* isinstance(x, int): bool is a subclass of int.
IsInstanceInt(x) == x.t \in {"int", "bool"}

\* regime_count == EXPECTED_REGIME_COUNT (True == 1, False == 0).
RegimeCountCorrect(regime_count) ==
    (IF regime_count.t = "bool" THEN (IF regime_count.v THEN 1 ELSE 0)
     ELSE regime_count.v) = EXPECTED_REGIME_COUNT

\* A mutant of CountDiffers: only a list that is too short is a mismatch.
CountTooSmall(breakpoints) == Len(breakpoints) < Len(EXPECTED_BREAKPOINTS)

\* len(breakpoints) != len(EXPECTED_BREAKPOINTS)
CountDiffers(breakpoints) == Len(breakpoints) # Len(EXPECTED_BREAKPOINTS)

\* A mutant of SortedDates: the lists are paired as given.
Unsorted(dates) == dates

\* dates.sort()
SortedDates(dates) == SortDates(dates)

\* The first exception of [_parse_date(bp) for bp in bps], with the element
\* that raised it; None when every element parses.
FirstParseFailure(bps) ==
    LET first(parsed) ==
            LET bad == {i \in 1..Len(bps) : IsRaise(parsed[i])}
            IN IF bad = {} THEN None
               ELSE [t |-> "raise", v |-> parsed[Min(bad)].v, at |-> bps[Min(bad)]]
    IN first([i \in 1..Len(bps) |-> _parse_date(bps[i])])

\* The comparison of two lists of the same length whose elements parsed.
CompareDates(expected, breakpoints) ==
    LET zip(expected_dates, output_dates) ==
            LET n == IF Len(expected_dates) < Len(output_dates)
                     THEN Len(expected_dates) ELSE Len(output_dates)
                all_within_tolerance ==
                    \A i \in 1..n :
                        _dates_within_tolerance(expected_dates[i], output_dates[i],
                                                TOLERANCE_DAYS)
                delta(i) == LET diff == expected_dates[i] - output_dates[i]
                            IN IF diff < 0 THEN -diff ELSE diff
                RECURSIVE mismatches(_)
                mismatches(i) ==
                    IF i > n THEN <<>>
                    ELSE (IF delta(i) > TOLERANCE_DAYS
                          THEN <<MismatchLine(expected_dates[i], output_dates[i], delta(i))>>
                          ELSE <<>>) \o mismatches(i + 1)
            IN [k |-> "done", correct |-> all_within_tolerance,
                feedback |-> IF all_within_tolerance THEN <<WITHIN_TOLERANCE>>
                             ELSE <<Line(<<"X", "Breakpoint", "mismatches:">>, <<>>)>>
                                  \o mismatches(1)]
    IN zip(SortedDates([i \in 1..Len(expected) |-> _parse_date(expected[i]).v]),
           SortedDates([i \in 1..Len(breakpoints) |-> _parse_date(breakpoints[i]).v]))

\* A mutant of CheckBreakpoints: the elements are parsed before the counts
\* are compared.
CheckBreakpointsParseFirst(breakpoints) ==
    LET parsed(fail) ==
            IF IsRaise(fail)
            THEN (IF fail.v = "ValueError"
                  THEN [k |-> "done", correct |-> FALSE,
                        feedback |-> <<ParseErrorLine(fail.at)>>]
                  ELSE [k |-> "raise", correct |-> FALSE, feedback |-> <<>>])
            ELSE IF CountDiffers(breakpoints)
            THEN [k |-> "done", correct |-> FALSE,
                  feedback |-> <<CountMismatchLine(Len(EXPECTED_BREAKPOINTS),
                                                   Len(breakpoints))>>]
            ELSE CompareDates(EXPECTED_BREAKPOINTS, breakpoints)
    IN parsed(FirstParseFailure(breakpoints))

\* "Check breakpoints": the count comparison, then inside try/except
\* ValueError the parsing, sorting and pairing.  An exception of another
\* class leaves test().
CheckBreakpoints(breakpoints) ==
    IF CountDiffers(breakpoints)
    THEN [k |-> "done", correct |-> FALSE,
          feedback |-> <<CountMismatchLine(Len(EXPECTED_BREAKPOINTS), Len(breakpoints))>>]
    ELSE LET parsed(fail) ==
                 IF IsRaise(fail)
                 THEN (IF fail.v = "ValueError"
                       THEN [k |-> "done", correct |-> FALSE,
                             feedback |-> <<ParseErrorLine(fail.at)>>]
                       ELSE [k |-> "raise", correct |-> FALSE, feedback |-> <<>>])
                 ELSE CompareDates(EXPECTED_BREAKPOINTS, breakpoints)
         IN parsed(FirstParseFailure(EXPECTED_BREAKPOINTS \o breakpoints))

\* A mutant of RegimePassed: the status is not part of the verdict.
RegimePassedAnyStatus(task_completed, regime_count_correct, breakpoints_correct) ==
    regime_count_correct /\ breakpoints_correct

\* passed = task_completed and regime_count_correct and breakpoints_correct
RegimePassed(task_completed, regime_count_correct, breakpoints_correct) ==
    task_completed /\ regime_count_correct /\ breakpoints_correct

\* test(result) of linear-regime-estimation.
test_linear_regime(st, tr, conv) ==
    LET conv_list == IF Truthy(conv) THEN conv ELSE EmptyList
        task_completed == st = Atom("success")
        schema_failure(line, output_json) ==
            Returned(FALSE, <<line>>,
                     [task_completed |-> task_completed, output_json |-> output_json])
        \* from "passed = ..." on; bp is what "Check breakpoints" came to
        verdict(output_json, regime_count, regime_count_correct, bp) ==
            IF bp.k = "raise" THEN Raised("AttributeError")
            ELSE LET breakpoints_correct == bp.correct
                     passed == RegimePassed(task_completed, regime_count_correct,
                                            breakpoints_correct)
                     parts ==
                         <<Line(<<"Found", "JSON", "output:", "{}">>, <<output_json>>),
                           Line(<<IF regime_count_correct THEN "V" ELSE "X",
                                  "Regime", "count:", "got", "{},", "expected", "{}.">>,
                                <<regime_count, EXPECTED_REGIME_COUNT>>)>>
                         \o bp.feedback
                         \o (IF task_completed THEN <<>> ELSE <<STATUS_NOT_SUCCESS>>)
                 IN Returned(passed, parts,
                             [task_completed |-> task_completed,
                              output_json |-> output_json,
                              regime_count_correct |-> regime_count_correct,
                              breakpoints_correct |-> breakpoints_correct,
                              expected_regime_count |-> EXPECTED_REGIME_COUNT,
                              expected_breakpoints |-> EXPECTED_BREAKPOINTS,
                              tolerance_days |-> TOLERANCE_DAYS])
        \* "Validate types", then the two checks
        typed(output_json, regime_count, breakpoints) ==
            IF ~IsInstanceInt(regime_count)
            THEN schema_failure(TypeMismatchRegimeCount(TypeName(regime_count)), output_json)
            ELSE IF breakpoints.t # "list"
            THEN schema_failure(TypeMismatchBreakpoints(TypeName(breakpoints)), output_json)
            ELSE verdict(output_json, regime_count, RegimeCountCorrect(regime_count),
                         CheckBreakpoints(breakpoints.v))
        \* from "if not output_json" on
        validate(output_json) ==
            IF IsRaise(output_json) THEN Raised(output_json.v)
            ELSE IF ~Truthy(output_json)
            THEN Returned(FALSE, <<REGIME_NOT_FOUND>>,
                          [task_completed |-> task_completed,
                           conversation_length |-> Len(conv_list.v)])
            ELSE IF "regime_count" \notin DOMAIN output_json.v
            THEN schema_failure(MISSING_REGIME_COUNT, output_json)
            ELSE IF "breakpoints" \notin DOMAIN output_json.v
            THEN schema_failure(MISSING_BREAKPOINTS, output_json)
            ELSE typed(output_json, Get(output_json, "regime_count"),
                       GetOr(output_json, "breakpoints", EmptyList))
        \* "if not output_json:" after the direct result: the conversation
        fallback(direct) ==
            IF IsRaise(direct) THEN Raised(direct.v)
            ELSE validate(IF ~Truthy(direct)
                          THEN _extract_json_from_conversation(conv_list.v)
                          ELSE direct)
    IN fallback(IF Truthy(tr) THEN _extract_json_from_text(tr) ELSE None)

\* ---------------------------------------------------------------- inputs
\* Texts of the tag grader.
P_GOOD == Str(<<"<","a","n","s","w","e","r",">","E","F","P","T","G","K","<","/","a","n","s","w","e","r",">">>)
P_LOWER_SPACED == Str(<<"<","a","n","s","w","e","r",">"," ","e","f","p","t","g","k"," ","<","/","a","n","s","w","e","r",">">>)
P_UPPER_TAGS == Str(<<"<","A","N","S","W","E","R",">","E","F","P","T","G","K","<","/","A","N","S","W","E","R",">">>)
P_MULTILINE == Str(<<"o","k"," ","<","A","n","s","w","e","r",">","\n"," ","E","f","P","t","G","k","\t","\n","<","/","a","N","S","W","E","R",">"," ","d","o","n","e">>)
P_BAD == Str(<<"<","a","n","s","w","e","r",">","A","B","C","<","/","a","n","s","w","e","r",">">>)
P_INNER_SPACE == Str(<<"<","a","n","s","w","e","r",">","E","F","P"," ","T","G","K","<","/","a","n","s","w","e","r",">">>)
P_EMPTY == Str(<<"<","a","n","s","w","e","r",">","<","/","a","n","s","w","e","r",">">>)
P_BLANK == Str(<<"<","a","n","s","w","e","r",">"," ","\n","<","/","a","n","s","w","e","r",">">>)
P_BAD_THEN_GOOD == Str(<<"<","a","n","s","w","e","r",">","a","b","c","<","/","a","n","s","w","e","r",">"," ","<","a","n","s","w","e","r",">","E","F","P","T","G","K","<","/","a","n","s","w","e","r",">">>)
P_GOOD_THEN_BAD == Str(<<"<","a","n","s","w","e","r",">","e","f","p","t","g","k","<","/","a","n","s","w","e","r",">"," ","<","a","n","s","w","e","r",">","A","B","C","<","/","a","n","s","w","e","r",">">>)
P_UNCLOSED == Str(<<"<","a","n","s","w","e","r",">","E","F","P","T","G","K">>)
P_NO_TAG == Str(<<"E","F","P","T","G","K">>)
P_OPEN_TWICE == Str(<<"<","a","n","s","w","e","r",">","<","a","n","s","w","e","r",">","E","F","P","T","G","K","<","/","a","n","s","w","e","r",">">>)
P_EMPTY_STR == EmptyStr
PuzzleTexts == {P_GOOD, P_LOWER_SPACED, P_UPPER_TAGS, P_MULTILINE, P_BAD, P_INNER_SPACE, P_EMPTY, P_BLANK, P_BAD_THEN_GOOD, P_GOOD_THEN_BAD, P_UNCLOSED, P_NO_TAG, P_OPEN_TWICE, P_EMPTY_STR}

\* Elements of a breakpoints list: dates around the two expected ones, texts
\* strptime rejects, and values that are no str.
D_1_MINUS_2 == Str(<<"2","0","2","4","-","0","7","-","2","5">>)
D_2_PLUS_4 == Str(<<"2","0","2","5","-","0","2","-","2","0">>)
D_1_PLUS_7 == Str(<<"2","0","2","4","-","0","8","-","0","3">>)
D_1_PLUS_8 == Str(<<"2","0","2","4","-","0","8","-","0","4">>)
D_2_MINUS_7 == Str(<<"\t","2","0","2","5","-","0","2","-","0","9","\n">>)
D_2_MINUS_8 == Str(<<"2","0","2","5","-","2","-","8">>)
D_NO_SUCH_DAY == Str(<<"2","0","2","4","-","0","2","-","3","0">>)
D_SLASHES == Str(<<"2","0","2","4","/","0","7","/","2","7">>)
BpElems == {D_1_MINUS_2, D_2_PLUS_4, D_1_PLUS_7, D_1_PLUS_8, D_2_MINUS_7, D_2_MINUS_8, D_NO_SUCH_DAY, D_SLASHES, IntV(5), None}
LongBpElems == {D_1_MINUS_2, D_SLASHES, IntV(5)}

\* JSON objects of the structured grader.
Absent == [t |-> "absent", v |-> 0]
Obj(rc, bp) ==
    Dict([k \in (IF rc = Absent THEN {} ELSE {"regime_count"})
              \cup (IF bp = Absent THEN {} ELSE {"breakpoints"}) |->
          IF k = "regime_count" THEN rc ELSE bp])
RegimeCounts == {Absent, IntV(3), IntV(2), Atom("3"), Float(3), Bool(TRUE), None}
BpLists ==
    UNION {[1..n -> BpElems] : n \in 0..Len(EXPECTED_BREAKPOINTS)}
    \cup UNION {[1..n -> LongBpElems] : n \in (Len(EXPECTED_BREAKPOINTS) + 1)..MaxBps}
Breakpoints == {Absent, Atom("2024-07-27")} \cup {List(l) : l \in BpLists}
RegimeObjects == {Obj(rc, bp) : rc \in RegimeCounts, bp \in Breakpoints}

GOOD_OBJ == Obj(IntV(3), List(EXPECTED_BREAKPOINTS))
BAD_OBJ == Obj(IntV(2), List(EXPECTED_BREAKPOINTS))

\* Texts of the structured grader.
R_GOOD == Str(<<Prose, Cand(FALSE, GOOD_OBJ), Prose>>)
R_BAD == Str(<<Cand(FALSE, BAD_OBJ)>>)
R_EMPTY == Str(<<Prose, Cand(FALSE, EmptyDict)>>)
R_NONE == Str(<<Prose>>)
R_FENCED_AFTER_RAW == Str(<<Cand(FALSE, BAD_OBJ), Prose, Cand(TRUE, GOOD_OBJ)>>)
R_MALFORMED_FIRST == Str(<<Cand(FALSE, Malformed), Cand(FALSE, GOOD_OBJ)>>)
R_FENCED_MALFORMED == Str(<<Cand(TRUE, Malformed), Cand(TRUE, BAD_OBJ), Cand(FALSE, GOOD_OBJ)>>)
R_ALL_MALFORMED == Str(<<Cand(TRUE, Malformed), Cand(FALSE, Malformed)>>)
RegimeTexts ==
    {Str(<<Cand(FALSE, o)>>) : o \in RegimeObjects}
    \cup {R_GOOD, R_BAD, R_EMPTY, R_NONE, R_FENCED_AFTER_RAW, R_MALFORMED_FIRST,
          R_FENCED_MALFORMED, R_ALL_MALFORMED, EmptyStr}

\* Messages: T gives the grader's texts with a correct payload (good), a
\* wrong one (bad), an empty one (empty) and none (none).
PuzzleT == [good |-> P_GOOD, bad |-> P_BAD, empty |-> P_EMPTY, none |-> P_NO_TAG]
RegimeT == [good |-> R_GOOD, bad |-> R_BAD, empty |-> R_EMPTY, none |-> R_NONE]

Msg(role, content, tool_calls) ==
    Dict([role |-> Atom(role), content |-> content, tool_calls |-> tool_calls])
ToolCall(name, arguments) ==
    Dict([function |-> Dict([name |-> Atom(name), arguments |-> arguments])])
Complete(arguments) == ToolCall("task_complete", arguments)
Result(text) == Dict([result |-> text])

\* Messages typed as the graders expect them.
TypedMessages(T) ==
    {Msg("assistant", T.good, None),
     Msg("assistant", T.bad, None),
     Msg("assistant", T.empty, None),
     Msg("assistant", None, List(<<Complete(Result(T.good))>>)),
     Msg("assistant", T.none, List(<<Complete(JsonStr(Result(T.bad)))>>)),
     Msg("assistant", T.good,
         List(<<Complete(JsonStr(Malformed)), Complete(Result(T.bad))>>)),
     Msg("assistant", T.bad,
         List(<<ToolCall("other_tool", Result(T.good)),
                Complete(Dict([note |-> T.good]))>>)),
     Msg("assistant", T.bad, List(<<Complete(Result(T.empty))>>)),
     Msg("user", T.good, List(<<Complete(Result(T.good))>>)),
     Msg("tool", T.good, None),
     Msg("system", T.none, None)}

\* Messages with a value of another JSON type somewhere.
UntypedMessages(T) ==
    {Atom("not a mapping"),
     Msg("assistant", IntV(5), None),
     Msg("assistant", T.good, IntV(5)),
     Msg("assistant", T.good, List(<<Dict([function |-> Atom("task_complete")])>>)),
     Msg("assistant", T.bad,
         List(<<Atom("not a mapping"), Complete(IntV(5)), Complete(Result(IntV(5)))>>))}

Messages(T) == TypedMessages(T) \cup UntypedMessages(T)

Conversations(T) == UNION {[1..n -> Messages(T)] : n \in 0..MaxConv}

Statuses == {Atom("success"), Atom("failed")}

Input(g, st, tr, conv) ==
    [grader |-> g, status |-> st, task_result |-> tr, conversation |-> conv]

\* The records handed to test(): every conversation with a few direct
\* results, and every direct result without a conversation.
Inputs(g, T, Texts) ==
    {Input(g, st, tr, List(c)) :
        st \in Statuses, tr \in {None, T.none, T.bad, T.empty}, c \in Conversations(T)}
    \cup {Input(g, st, tr, None) : st \in Statuses \cup {None}, tr \in Texts \cup {None, IntV(5)}}

\* ------------------------------------------------------- specification
NoOutcome == [kind |-> "none"]

Init ==
    /\ \E in \in Inputs("eight-puzzle-game", PuzzleT, PuzzleTexts)
               \cup Inputs("linear-regime-estimation", RegimeT, RegimeTexts) :
           /\ grader = in.grader
           /\ status = in.status
           /\ task_result = in.task_result
           /\ conversation = in.conversation
    /\ pc = "ready"
    /\ outcome = NoOutcome
    /\ max_retries = 0
    /\ delay = 0
    /\ attempt = 0
    /\ retry_pc = "idle"
    /\ retry_log = <<>>
    /\ retry_outcome = NoOutcome

\* eight-puzzle-game's test(result) runs on the record.
TestEightPuzzle ==
    /\ pc = "ready"
    /\ grader = "eight-puzzle-game"
    /\ outcome' = test_eight_puzzle(status, task_result, conversation)
    /\ pc' = "done"
    /\ UNCHANGED <<grader, status, task_result, conversation>>
    /\ UNCHANGED retryVars

\* linear-regime-estimation's test(result) runs on the record.
TestLinearRegime ==
    /\ pc = "ready"
    /\ grader = "linear-regime-estimation"
    /\ outcome' = test_linear_regime(status, task_result, conversation)
    /\ pc' = "done"
    /\ UNCHANGED <<grader, status, task_result, conversation>>
    /\ UNCHANGED retryVars

Next == TestEightPuzzle \/ TestLinearRegime

Spec == Init /\ [][Next]_vars

\* ------------------------------------------------- executor: retry_request
\* What a call of func can do: return a value, raise an Exception, or raise
\* a BaseException that is no Exception (KeyboardInterrupt).
FuncValues == {"v1", "v2"}
FuncExceptions == {"ConnectionError", "Timeout"}
FuncInterrupts == {"KeyboardInterrupt"}

\* The log of what retry_request did, in order: calls of func and sleeps.
Called(r) == [e |-> "call", r |-> r]
Slept(d) == [e |-> "sleep", r |-> d]
FuncReturned(v) == [k |-> "value", v |-> v]
FuncRaised(x) == [k |-> "raise", v |-> x]

\* How retry_request ends: with a value (None when the loop runs out) or
\* with an exception.
NoValue == [k |-> "none", v |-> "None"]
RetryReturned(r) == [kind |-> "returned", value |-> r]
RetryRaised(x) == [kind |-> "raised", exc |-> x]

\* A mutant of Backoff: the same wait after every attempt.
BackoffConstant(d, k) == d

\* delay * (2 ** attempt)
Backoff(d, k) == d * (2 ^ k)

\* attempt == max_retries - 1
IsLastAttempt(k, n) == k = n - 1

\* retry_request(func, max_retries, delay) is called.
RetryInit ==
    /\ max_retries \in 0..MaxRetries
    /\ delay \in (-1)..MaxDelay
    /\ attempt = 0
    /\ retry_pc = "for"
    /\ retry_log = <<>>
    /\ retry_outcome = NoOutcome
    /\ grader = "retry_request"
    /\ status = None
    /\ task_result = None
    /\ conversation = None
    /\ pc = "idle"
    /\ outcome = NoOutcome

\* for attempt in range(max_retries): the next attempt, or the end of the
\* loop and of the function, which then returns None.
RetryFor ==
    /\ retry_pc = "for"
    /\ IF attempt < max_retries
       THEN retry_pc' = "try" /\ UNCHANGED retry_outcome
       ELSE retry_pc' = "done" /\ retry_outcome' = RetryReturned(NoValue)
    /\ UNCHANGED <<max_retries, delay, attempt, retry_log>>
    /\ UNCHANGED graderVars

\* return func(): func returns.
RetryFuncReturns ==
    /\ retry_pc = "try"
    /\ \E v \in FuncValues :
          /\ retry_log' = Append(retry_log, Called(FuncReturned(v)))
          /\ retry_outcome' = RetryReturned(FuncReturned(v))
    /\ retry_pc' = "done"
    /\ UNCHANGED <<max_retries, delay, attempt>>
    /\ UNCHANGED graderVars

\* func raises: except Exception catches an Exception and raises it again
\* when the attempt is the last; anything else leaves retry_request at once.
RetryFuncRaises ==
    /\ retry_pc = "try"
    /\ \E x \in FuncExceptions \cup FuncInterrupts :
          /\ retry_log' = Append(retry_log, Called(FuncRaised(x)))
          /\ IF x \in FuncInterrupts \/ IsLastAttempt(attempt, max_retries)
             THEN retry_pc' = "done" /\ retry_outcome' = RetryRaised(x)
             ELSE retry_pc' = "sleep" /\ UNCHANGED retry_outcome
    /\ UNCHANGED <<max_retries, delay, attempt>>
    /\ UNCHANGED graderVars

\* time.sleep(delay * (2 ** attempt)): a negative length raises ValueError,
\* which leaves retry_request from inside the handler.
RetrySleep ==
    /\ retry_pc = "sleep"
    /\ IF Backoff(delay, attempt) < 0
       THEN /\ retry_pc' = "done"
            /\ retry_outcome' = RetryRaised("ValueError")
            /\ UNCHANGED <<attempt, retry_log>>
       ELSE /\ retry_log' = Append(retry_log, Slept(Backoff(delay, attempt)))
            /\ attempt' = attempt + 1
            /\ retry_pc' = "for"
            /\ UNCHANGED retry_outcome
    /\ UNCHANGED <<max_retries, delay>>
    /\ UNCHANGED graderVars

RetryNext == RetryFor \/ RetryFuncReturns \/ RetryFuncRaises \/ RetrySleep

RetrySpec == RetryInit /\ [][RetryNext]_vars

\* ---------------------------------------------------------------- claims
Done == pc = "done"
IsPuzzle == grader = "eight-puzzle-game"
IsRegime == grader = "linear-regime-estimation"
ReturnedOutcome == Done /\ outcome.kind = "returned"

\* The grader's extraction from one text.
KindOfGrader == IF IsPuzzle THEN "answer" ELSE "json"
ExtractText(text) == ExtractPayload(KindOfGrader, text)

\* The payload the outcome reports as validated; None when it reports none.
PayloadOf(o) ==
    IF o.kind # "returned" THEN None
    ELSE IF "output_answer" \in DOMAIN o.details THEN Str(o.details.output_answer)
    ELSE IF "output_json" \in DOMAIN o.details THEN o.details.output_json
    ELSE None

\* The outcome carries a per-field correctness flag.
HasFieldFlag(o) ==
    /\ o.kind = "returned"
    /\ DOMAIN o.details \cap {"answer_correct", "regime_count_correct",
                               "breakpoints_correct"} # {}

\* The feedback has this line / a line with these consecutive words.
HasLine(fb, text, args) ==
    \E i \in 1..Len(fb) : fb[i].text = text /\ fb[i].args = args
Names(fb, words) ==
    \E i \in 1..Len(fb) : \E k \in 0..(Len(fb[i].text) - Len(words)) :
        SubSeq(fb[i].text, k + 1, k + Len(words)) = words

ConvList == IF Truthy(conversation) THEN conversation.v ELSE <<>>
TextsOfGrader == IF IsPuzzle THEN PuzzleT ELSE RegimeT
TypedConversation == \A i \in 1..Len(ConvList) : ConvList[i] \in TypedMessages(TextsOfGrader)

\* task_result holds a payload that the grader's text extraction finds,
\* an empty one included.
DirectHasPayload ==
    /\ task_result.t = "str"
    /\ ExtractText(task_result).t \in {"str", "dict"}

\* C1: whenever task_result holds an extractable payload (an empty tag body
\* and {} included), the conversation is never consulted: a payload that is
\* validated is the one of task_result, never one found in the conversation.
C1_DirectResultShadowsConversation ==
    (Done /\ DirectHasPayload /\ TypedConversation) =>
        /\ outcome.kind = "returned"
        /\ DOMAIN outcome.details \cap {"output_answer", "output_json"} # {}
              => PayloadOf(outcome) = ExtractText(task_result)

\* task_result is absent or holds no payload at all.
DirectYieldsNothing == ~Truthy(task_result) \/ ExtractText(task_result) = None

\* The messages with a non-empty payload in a task_complete tool call, and
\* those with a non-empty payload in their content.
ToolPayloadAt ==
    {i \in 1..Len(ConvList) : ToolCallsVisit(ConvList[i], KindOfGrader).k = "return"}
ContentPayloadAt ==
    {i \in 1..Len(ConvList) : ContentVisit(ConvList[i], KindOfGrader).k = "return"}
ToolPayload(i) == ToolCallsVisit(ConvList[i], KindOfGrader).v
ContentPayload(i) == ContentVisit(ConvList[i], KindOfGrader).v

\* A newer message has a payload in its content only, an older one has a
\* different payload in a tool call.
NewerContentOlderToolCall ==
    \E i, j \in 1..Len(ConvList) :
        /\ i < j
        /\ i \in ToolPayloadAt
        /\ j \in ContentPayloadAt
        /\ \A k \in j..Len(ConvList) : k \notin ToolPayloadAt
        /\ \A k \in (j + 1)..Len(ConvList) : k \notin ContentPayloadAt
        /\ ContentPayload(j) # ToolPayload(i)

\* C2 as claimed: with nothing in task_result, a newer assistant message's
\* content payload is returned before an older message's tool-call payload.
C2_NewerContentBeforeOlderToolCall ==
    (Done /\ DirectYieldsNothing /\ TypedConversation /\ NewerContentOlderToolCall) =>
        PayloadOf(outcome) = ContentPayload(Max(ContentPayloadAt))

\* C2 as amended: with nothing in task_result and a typed conversation, the
\* payload is the tool-call payload of the newest message that has one; only
\* when no message has one, the content payload of the newest message that has
\* one; and none otherwise.
C2_ToolCallsOfAllMessagesFirst ==
    (Done /\ DirectYieldsNothing /\ TypedConversation) =>
        /\ outcome.kind = "returned"
        /\ PayloadOf(outcome) =
              IF ToolPayloadAt # {} THEN ToolPayload(Max(ToolPayloadAt))
              ELSE IF ContentPayloadAt # {} THEN ContentPayload(Max(ContentPayloadAt))
              ELSE None

C2_Witness ==
    /\ Done /\ DirectYieldsNothing /\ TypedConversation /\ NewerContentOlderToolCall
    /\ PayloadOf(outcome) = ToolPayload(Max(ToolPayloadAt))
    /\ PayloadOf(outcome) # ContentPayload(Max(ContentPayloadAt))

\* C3: test() always ends by returning an outcome record, whatever JSON types
\* the messages, tool calls and breakpoints elements have; no exception
\* leaves it.
C3_TestIsTotal ==
    (Done /\ task_result.t \in {"null", "str"}) =>
        /\ outcome.kind = "returned"
        /\ outcome.passed \in BOOLEAN
        /\ Len(outcome.feedback) > 0

\* The outcome of a validation: the payload passed the schema checks.
Validated == ReturnedOutcome /\ HasFieldFlag(outcome)
TaskCompleted == status = Atom("success")

\* C4: once a payload passed the schema checks, passed is the conjunction of
\* status = "success" and the field flags, and the flags are decided by the
\* payload alone.
C4_PassedIsStatusAndFields ==
    Validated =>
        /\ outcome.details.task_completed = TaskCompleted
        /\ IsPuzzle =>
              /\ outcome.passed = (TaskCompleted /\ outcome.details.answer_correct)
              /\ outcome.details.answer_correct =
                    (StrUpper(Strip(outcome.details.output_answer)) = EXPECTED_ANSWER)
        /\ IsRegime =>
              /\ outcome.passed = (/\ TaskCompleted
                                   /\ outcome.details.regime_count_correct
                                   /\ outcome.details.breakpoints_correct)
              /\ outcome.details.regime_count_correct =
                    (outcome.details.output_json.v["regime_count"] = IntV(EXPECTED_REGIME_COUNT))
              /\ \A st \in Statuses :
                    LET o == test_linear_regime(st, task_result, conversation)
                    IN o.details.breakpoints_correct = outcome.details.breakpoints_correct

\* A correct payload of a run that did not succeed: the flags stay true.
C4_Witness ==
    /\ Validated /\ IsRegime /\ ~TaskCompleted
    /\ outcome.details.regime_count_correct
    /\ outcome.details.breakpoints_correct
    /\ ~outcome.passed

\* The object the structured grader validated.
OutputJson == outcome.details.output_json
\* The outcome reports the object, which passed the schema checks of the code.
BreakpointsChecked ==
    /\ ReturnedOutcome /\ IsRegime
    /\ "breakpoints_correct" \in DOMAIN outcome.details
ActualBreakpoints == OutputJson.v["breakpoints"].v

\* The permutations of 1..n.
Perms(n) == {p \in [1..n -> 1..n] : \A i, j \in 1..n : p[i] = p[j] => i = j}
Ascending(s, p) == \A i \in 1..(Len(s) - 1) : s[p[i]] <= s[p[i + 1]]
AbsDiff(a, b) == IF a < b THEN b - a ELSE a - b
\* Both lists of day numbers sorted ascending and paired by position: every
\* pair is at most tol days apart.
SortedPairsWithin(exp, act, tol) ==
    \E p, q \in Perms(Len(exp)) :
        /\ Ascending(exp, p)
        /\ Ascending(act, q)
        /\ \A i \in 1..Len(exp) : AbsDiff(exp[p[i]], act[q[i]]) <= tol
DayNumbers(bps) == [i \in 1..Len(bps) |-> _parse_date(bps[i]).v]
AllParse(bps) == \A i \in 1..Len(bps) : ~IsRaise(_parse_date(bps[i]))

\* An object in task_result that is all of the text, with an integer
\* regime_count and a breakpoints list.
DirectObject ==
    /\ Done /\ IsRegime
    /\ task_result.t = "str"
    /\ Len(task_result.v) = 1
    /\ task_result.v[1].k = "cand"
    /\ task_result.v[1].v.t = "dict"
    /\ DOMAIN task_result.v[1].v.v = {"regime_count", "breakpoints"}
    /\ task_result.v[1].v.v["regime_count"].t = "int"
    /\ task_result.v[1].v.v["breakpoints"].t = "list"
DirectBreakpoints == task_result.v[1].v.v["breakpoints"].v

\* C5: for a breakpoints list of the expected length whose elements all
\* parse, breakpoints_correct is true exactly when, both lists sorted
\* ascending and paired by position, every pair is at most 7 days apart.
C5_SortedPairsWithinTolerance ==
    /\ (DirectObject /\ Len(DirectBreakpoints) = Len(EXPECTED_BREAKPOINTS)
           /\ AllParse(DirectBreakpoints))
          => (BreakpointsChecked /\ ActualBreakpoints = DirectBreakpoints)
    /\ (BreakpointsChecked /\ Len(ActualBreakpoints) = Len(EXPECTED_BREAKPOINTS)
           /\ AllParse(ActualBreakpoints))
          => outcome.details.breakpoints_correct =
                SortedPairsWithin(DayNumbers(EXPECTED_BREAKPOINTS),
                                  DayNumbers(ActualBreakpoints), 7)

\* Expected [2024-07-27, 2025-02-16], actual [2025-02-20, 2024-07-25]: passes.
C5_Witness ==
    /\ BreakpointsChecked
    /\ ActualBreakpoints = <<D_2_PLUS_4, D_1_MINUS_2>>
    /\ outcome.details.breakpoints_correct

COUNT_MISMATCH_WORDS == <<"Expected", "{}", "breakpoints,", "got", "{}.">>
PARSE_ERROR_WORDS == <<"Error", "parsing", "breakpoint", "dates:">>

\* C6: a breakpoints list whose length is not the expected one fails with
\* "Expected N breakpoints, got M.", whatever its elements are, and nothing
\* is paired.
C6_CountMismatchFails ==
    /\ (DirectObject /\ Len(DirectBreakpoints) # Len(EXPECTED_BREAKPOINTS))
          => (BreakpointsChecked /\ ActualBreakpoints = DirectBreakpoints)
    /\ (BreakpointsChecked /\ Len(ActualBreakpoints) # Len(EXPECTED_BREAKPOINTS))
          => /\ ~outcome.details.breakpoints_correct
             /\ ~outcome.passed
             /\ HasLine(outcome.feedback, COUNT_MISMATCH_WORDS,
                        <<Len(EXPECTED_BREAKPOINTS), Len(ActualBreakpoints)>>)
             /\ ~Names(outcome.feedback, <<"Breakpoint", "mismatches:">>)
             /\ ~Names(outcome.feedback, <<"within">>)

\* Three elements where two are expected, one of them no date at all.
C6_Witness ==
    /\ BreakpointsChecked
    /\ Len(ActualBreakpoints) = Len(EXPECTED_BREAKPOINTS) + 1
    /\ \E i \in 1..Len(ActualBreakpoints) : ActualBreakpoints[i] = IntV(5)
    /\ HasLine(outcome.feedback, COUNT_MISMATCH_WORDS, <<2, 3>>)

\* A str that strptime rejects once trimmed.
Unparseable(e) == e.t = "str" /\ IsRaise(_parse_date(e))
HasUnparseable(bps) == \E i \in 1..Len(bps) : Unparseable(bps[i])

\* C7 as claimed: a breakpoints list with an element that is no date fails
\* with the parse-error diagnostic, also when the element counts differ.
C7_ParseErrorBeforeCount ==
    (BreakpointsChecked /\ HasUnparseable(ActualBreakpoints)) =>
        Names(outcome.feedback, PARSE_ERROR_WORDS)

\* The first element of bps that does not parse is a str, at position i.
FirstFailureIsStrAt(bps, i) ==
    /\ i \in 1..Len(bps)
    /\ Unparseable(bps[i])
    /\ \A k \in 1..(i - 1) : ~IsRaise(_parse_date(bps[k]))

\* C7 as amended: the counts are compared first, so a list of another length
\* gets the count-mismatch diagnostic and no parse error; a list of the
\* expected length whose first element that does not parse is a str fails
\* with the parse-error diagnostic for that element.
C7_CountThenParseError ==
    /\ (BreakpointsChecked /\ Len(ActualBreakpoints) # Len(EXPECTED_BREAKPOINTS))
          => /\ ~Names(outcome.feedback, PARSE_ERROR_WORDS)
             /\ Names(outcome.feedback, COUNT_MISMATCH_WORDS)
    /\ \A i \in 1..Len(EXPECTED_BREAKPOINTS) :
          (DirectObject /\ Len(DirectBreakpoints) = Len(EXPECTED_BREAKPOINTS)
             /\ FirstFailureIsStrAt(DirectBreakpoints, i))
          => /\ BreakpointsChecked
             /\ ActualBreakpoints = DirectBreakpoints
             /\ ~outcome.details.breakpoints_correct
             /\ ~outcome.passed
             /\ \E k \in 1..Len(outcome.feedback) :
                   /\ SubSeq(outcome.feedback[k].text, 1, 4) = PARSE_ERROR_WORDS
                   /\ outcome.feedback[k].args = <<DirectBreakpoints[i]>>
             /\ ~Names(outcome.feedback, COUNT_MISMATCH_WORDS)

\* Two elements, the second no day of the calendar: a parse error.
C7_Witness ==
    /\ DirectObject /\ BreakpointsChecked
    /\ DirectBreakpoints = <<D_1_MINUS_2, D_NO_SUCH_DAY>>
    /\ Names(outcome.feedback, PARSE_ERROR_WORDS)
    /\ ~outcome.details.breakpoints_correct

\* No message of the conversation is an assistant message.
NoAssistantMessage ==
    \A i \in 1..Len(ConvList) :
        ~(ConvList[i].t = "dict" /\ Get(ConvList[i], "role") = Atom("assistant"))

\* C8 as claimed: without task_result and without an assistant message, both
\* graders return passed=false with "No valid answer found" and validate
\* nothing.
C8_NotFoundNamesAnswer ==
    (Done /\ task_result = None /\ NoAssistantMessage) =>
        /\ outcome.kind = "returned"
        /\ ~outcome.passed
        /\ Names(outcome.feedback, <<"No", "valid", "answer", "found">>)
        /\ ~HasFieldFlag(outcome)

\* C8 as amended: the tag grader's feedback names "No valid answer found",
\* the structured grader's "No valid JSON object found".
C8_NotFoundPerGrader ==
    (Done /\ task_result = None /\ NoAssistantMessage) =>
        /\ outcome.kind = "returned"
        /\ ~outcome.passed
        /\ Len(outcome.feedback) = 1
        /\ IsPuzzle => Names(outcome.feedback, <<"No", "valid", "answer", "found">>)
        /\ IsRegime => Names(outcome.feedback, <<"No", "valid", "JSON", "object", "found">>)
        /\ ~HasFieldFlag(outcome)
        /\ DOMAIN outcome.details = {"task_completed", "conversation_length"}

\* A successful run whose only payloads are in a user and a tool message.
C8_Witness ==
    /\ Done /\ IsRegime /\ task_result = None /\ NoAssistantMessage
    /\ TaskCompleted
    /\ Len(ConvList) = 2
    /\ \E i \in 1..2 : ConvList[i] = Msg("user", R_GOOD, List(<<Complete(Result(R_GOOD))>>))
    /\ \E i \in 1..2 : ConvList[i] = Msg("tool", R_GOOD, None)
    /\ Names(outcome.feedback, <<"No", "valid", "JSON", "object", "found">>)

\* C9: an extracted object without regime_count or breakpoints gets a
\* missing-field failure, one with a regime_count that is no integer (a
\* string, float, boolean, null) or breakpoints that is no list gets a
\* type-mismatch failure; either way passed=false and no field is compared.
C9_SchemaChecksShortCircuit ==
    (ReturnedOutcome /\ IsRegime /\ "output_json" \in DOMAIN outcome.details) =>
        LET keys == DOMAIN OutputJson.v
            missing == ~({"regime_count", "breakpoints"} \subseteq keys)
            mistyped == /\ ~missing
                        /\ \/ OutputJson.v["regime_count"].t # "int"
                           \/ OutputJson.v["breakpoints"].t # "list"
        IN /\ missing => /\ Names(outcome.feedback, <<"JSON", "output", "missing">>)
                          /\ ~outcome.passed
                          /\ ~HasFieldFlag(outcome)
           /\ mistyped => /\ Names(outcome.feedback, <<"must", "be">>)
                           /\ ~outcome.passed
                           /\ ~HasFieldFlag(outcome)

\* The body of the first <answer>...</answer> pair of the characters s is
\* s[i+8..j-1].
FirstPairAt(s, i, j) ==
    /\ MatchAtNoCase(s, i, OPEN_TAG)
    /\ MatchAtNoCase(s, j, CLOSE_TAG)
    /\ j >= i + Len(OPEN_TAG)
    /\ \A i2 \in 1..(i - 1) : ~MatchAtNoCase(s, i2, OPEN_TAG)
    /\ \A j2 \in (i + Len(OPEN_TAG))..(j - 1) : ~MatchAtNoCase(s, j2, CLOSE_TAG)
HasNonSpace(s) == \E k \in 1..Len(s) : ~IsSpace(s[k])

\* C10: for a text with <answer>BODY</answer>, the tags in any letter case
\* and BODY inside any whitespace, the body of the first pair is extracted
\* and answer_correct is true exactly when BODY trimmed and uppercased is
\* the expected answer trimmed and uppercased; with status "success" that is
\* the verdict.
C10_TagAnswerIgnoresCaseAndSpace ==
    (Done /\ IsPuzzle /\ task_result.t = "str") =>
        \A i, j \in 1..Len(task_result.v) :
            LET body == SubSeq(task_result.v, i + Len(OPEN_TAG), j - 1)
            IN (FirstPairAt(task_result.v, i, j) /\ HasNonSpace(body)) =>
                  /\ outcome.kind = "returned"
                  /\ "answer_correct" \in DOMAIN outcome.details
                  /\ outcome.details.output_answer = Strip(body)
                  /\ outcome.details.answer_correct =
                        (StrUpper(Strip(body)) = StrUpper(Strip(EXPECTED_ANSWER)))
                  /\ outcome.passed =
                        (TaskCompleted /\ StrUpper(Strip(body)) = StrUpper(Strip(EXPECTED_ANSWER)))

\* "<answer> efptgk </answer>" of a successful run passes.
C10_Witness ==
    /\ Done /\ IsPuzzle /\ TaskCompleted
    /\ task_result = P_LOWER_SPACED
    /\ outcome.kind = "returned"
    /\ outcome.passed
    /\ outcome.details.output_answer = <<"e", "f", "p", "t", "g", "k">>

\* The grader's test() on a record.
TestOf(g, st, tr, conv) ==
    IF g = "eight-puzzle-game" THEN test_eight_puzzle(st, tr, conv)
    ELSE test_linear_regime(st, tr, conv)

\* The decoded arguments of a task_complete tool call; a raise value when
\* json.loads rejects them.
IsTaskComplete(tc) ==
    /\ tc.t = "dict"
    /\ "function" \in DOMAIN tc.v
    /\ tc.v["function"].t = "dict"
    /\ Get(tc.v["function"], "name") = Atom("task_complete")
DecodedArguments(tc) ==
    LET a == GetOr(tc.v["function"], "arguments", JsonStr(EmptyDict))
    IN IF a.t = "jsonstr" THEN a.v ELSE a

\* A task_complete tool call whose arguments cannot be decoded: invalid JSON,
\* or a value that is no mapping, has no "result", or whose "result" is no text.
Undecodable(tc) ==
    /\ IsTaskComplete(tc)
    /\ LET d == DecodedArguments(tc)
       IN \/ IsRaise(d)
          \/ d.t # "dict"
          \/ "result" \notin DOMAIN d.v
          \/ d.v["result"].t # "str"

\* The tool calls of message m that an assistant message's loop visits.
ToolCallsOf(m) ==
    IF /\ ConvList[m].t = "dict"
       /\ Get(ConvList[m], "role") = Atom("assistant")
       /\ Get(ConvList[m], "tool_calls").t = "list"
    THEN Get(ConvList[m], "tool_calls").v ELSE <<>>
UndecodableAt(m) == {i \in 1..Len(ToolCallsOf(m)) : Undecodable(ToolCallsOf(m)[i])}

\* The conversation without tool call i of message m.
DropToolCall(m, i) ==
    LET tcs == ToolCallsOf(m)
        rest == SubSeq(tcs, 1, i - 1) \o SubSeq(tcs, i + 1, Len(tcs))
        msg == Dict([k \in DOMAIN ConvList[m].v |->
                     IF k = "tool_calls" THEN List(rest) ELSE ConvList[m].v[k]])
    IN [k \in 1..Len(ConvList) |-> IF k = m THEN msg ELSE ConvList[k]]

\* The non-empty payloads of the task_complete tool calls that follow tool
\* call i in message m.
LaterCallPayloads(m, i) ==
    LET tcs == ToolCallsOf(m)
    IN {ExtractText(DecodedArguments(tcs[j]).v["result"]) :
          j \in {j \in (i + 1)..Len(tcs) :
                   /\ IsTaskComplete(tcs[j])
                   /\ ~Undecodable(tcs[j])
                   /\ Truthy(ExtractText(DecodedArguments(tcs[j]).v["result"]))}}

\* C11: a task_complete tool call whose arguments cannot be decoded is
\* skipped without stopping the scan: test() ends as it does on the same
\* conversation without that tool call, and when nothing newer holds a payload
\* and a later tool call of the same message does, a payload is validated.
C11_UndecodableToolCallIsSkipped ==
    (Done /\ conversation.t = "list") =>
        \A m \in 1..Len(ConvList) : \A i \in UndecodableAt(m) :
            /\ outcome = TestOf(grader, status, task_result, List(DropToolCall(m, i)))
            /\ (/\ DirectYieldsNothing
                /\ TypedConversation
                /\ LaterCallPayloads(m, i) # {})
                  => PayloadOf(outcome) # None

C11_Witness ==
    /\ Done /\ DirectYieldsNothing /\ TypedConversation
    /\ Len(ConvList) = MaxConv
    /\ \E i \in UndecodableAt(Len(ConvList)) :
          /\ IsRaise(DecodedArguments(ToolCallsOf(Len(ConvList))[i]))
          /\ PayloadOf(outcome) \in LaterCallPayloads(Len(ConvList), i)

\* retry_request has ended.
RetryDone == retry_pc = "done"
CallsAt == {i \in 1..Len(retry_log) : retry_log[i].e = "call"}
FailedCall(ev) == ev.e = "call" /\ ev.r.k = "raise"

\* 2 ** k by repeated doubling.
RECURSIVE Doubled(_)
Doubled(k) == IF k = 0 THEN 1 ELSE 2 * Doubled(k - 1)

\* C12: retry_request calls func at most max_retries times, one call after
\* another; a call that returns ends it with that value; a call that raises an
\* Exception and is not the last is followed by a sleep of delay * 2^k (k the
\* 0-based attempt) and then the next call; when all max_retries calls raise,
\* the exception of the last one is raised with no sleep after it; and with
\* max_retries = 0 func is never called and None is returned.  (delay >= 0.)
C12_RetryWithBackoff ==
    (retry_pc # "idle" /\ delay >= 0) =>
        /\ Cardinality(CallsAt) <= max_retries
        /\ \A i \in 1..Len(retry_log) :
              /\ (i % 2 = 1) => retry_log[i].e = "call"
              /\ (i % 2 = 0) =>
                    /\ retry_log[i] = Slept(delay * Doubled((i \div 2) - 1))
                    /\ FailedCall(retry_log[i - 1])
                    /\ retry_log[i - 1].r.v \in FuncExceptions
              /\ (i < Len(retry_log) /\ retry_log[i].e = "call") => FailedCall(retry_log[i])
        /\ (RetryDone /\ max_retries = 0) =>
              /\ retry_log = <<>>
              /\ retry_outcome = RetryReturned(NoValue)
        /\ (RetryDone /\ max_retries >= 1) =>
              /\ Len(retry_log) >= 1
              /\ LET last == retry_log[Len(retry_log)]
                 IN /\ last.e = "call"
                    /\ last.r.k = "value" => retry_outcome = RetryReturned(last.r)
                    /\ last.r.k = "raise" =>
                          /\ retry_outcome = RetryRaised(last.r.v)
                          /\ last.r.v \in FuncExceptions =>
                                Cardinality(CallsAt) = max_retries

C12_Witness ==
    /\ RetryDone
    /\ max_retries = MaxRetries
    /\ delay = MaxDelay
    /\ retry_outcome.kind = "raised"
    /\ retry_outcome.exc \in FuncExceptions
    /\ Len(retry_log) = 2 * max_retries - 1
    /\ retry_log[1].r.v # retry_outcome.exc

====
